---- MODULE Spec2Model ----
(***************************************************************************)
(* The gateway of src/app.js: an Express application that keeps the        *)
(* upstream bearer token in the HttpOnly cookie jwtToken, guards the       *)
(* incident routes with proxyAuthenticate, forwards each request to the    *)
(* upstream API with fetch and translates the upstream reply.              *)
(*                                                                         *)
(* A handler runs in two steps: Dispatch is the synchronous part up to the *)
(* `await fetch(...)`, Settle is the continuation that runs when the       *)
(* upstream call returns or throws.  Deliver is the browser taking the     *)
(* response and applying its Set-Cookie header to the session's cookie.    *)
(***************************************************************************)
EXTENDS Integers, Sequences, FiniteSets, TLC

VARIABLES
  jar,       \* jar[s]: the value of cookie jwtToken in browser session s
  xch,       \* xch[k]: the exchange in slot k (request, upstream call, reply, response)
  nodeEnv,   \* process.env.NODE_ENV
  alive,     \* the process is running (no unhandled rejection ended it)
  faulted,   \* history: some upstream call has thrown
  store,     \* store[n]: incident n as a stable upstream holds it
  last,      \* history: the exchange the browser completed last
  ui         \* ui[s]: the view the page of session s shows, and the function of
             \* script.js that has sent a request and waits for its response

vars == <<jar, xch, nodeEnv, alive, faulted, store, last, ui>>

----------------------------------------------------------------------------
(* Bounds *)

MaxInFlight == 2
MaxId == 2

Slots == 1..MaxInFlight
Sessions == {"s1", "s2"}
Ids == 1..MaxId

----------------------------------------------------------------------------
(* Values *)

\* JavaScript's undefined (an absent cookie, an absent field, no :id parameter).
Undefined == "<undefined>"

\* JavaScript truthiness of a string-or-undefined value.
Truthy(v) == v # Undefined /\ v # ""

Tokens == {"t1", "t2"}

\* The data of an incident (the fields of the create form; Blank: none given).
Blank == [title |-> Undefined, reporter |-> Undefined, type |-> Undefined]
ServerDown == [title |-> "Server down", reporter |-> "alice", type |-> "outage"]
DiskFull == [title |-> "Disk full", reporter |-> "bob", type |-> "capacity"]
IncidentData == {Blank, ServerDown, DiskFull}

\* An incident as the upstream reports it: its id and its data.
IncidentOf(n, d) == [id |-> n, title |-> d.title, reporter |-> d.reporter, type |-> d.type]
NoIncident == IncidentOf(0, Blank)
Incidents == {IncidentOf(n, d) : n \in Ids, d \in IncidentData}

\* A parsed JSON value: null, an object with the fields the gateway reads or writes
\* (incident: the object is an incident), or an array of incidents (items).
EmptyObj ==
  [type |-> "object", token |-> Undefined, error |-> Undefined,
   message |-> Undefined, response |-> Undefined, details |-> Undefined,
   title |-> Undefined, incident |-> NoIncident, items |-> <<>>]

JNull == [EmptyObj EXCEPT !.type = "null"]

\* Upstream body texts (quotes of the JSON text are left out).
TxtTok1 == "{token:t1}"
TxtTok2 == "{token:t2}"
TxtNoTok == "{token:}"
TxtErr == "{error:denied}"
TxtMsg == "{message:ok}"
TxtNull == "null"
TxtHtml == "<html>502 Bad Gateway</html>"
TxtEmpty == ""

\* The JSON text of an incident and of an array of incidents; a field that is
\* undefined is left out.
FieldText(name, v) == IF v = Undefined THEN "" ELSE "," \o name \o ":" \o v

IncidentText(i) ==
  "{id:" \o ToString(i.id) \o FieldText("title", i.title)
    \o FieldText("reporter", i.reporter) \o FieldText("type", i.type) \o "}"

RECURSIVE ItemsText(_)
ItemsText(items) ==
  IF items = <<>> THEN ""
  ELSE IncidentText(Head(items)) \o (IF Len(items) > 1 THEN "," ELSE "")
         \o ItemsText(Tail(items))

ArrayText(items) == "[" \o ItemsText(items) \o "]"

\* The arrays of incidents in ascending order of id, each id at most once.
RECURSIVE ArraysUpTo(_)
ArraysUpTo(n) ==
  IF n = 0 THEN {<<>>}
  ELSE ArraysUpTo(n - 1) \cup
         {Append(a, IncidentOf(n, d)) : a \in ArraysUpTo(n - 1), d \in IncidentData}

IncidentArrays == ArraysUpTo(MaxId)

\* The incident, or the array, that a JSON text spells out.
ParsedIncident ==
  [t \in {IncidentText(i) : i \in Incidents} |->
     CHOOSE i \in Incidents : IncidentText(i) = t]

ParsedArray ==
  [t \in {ArrayText(a) : a \in IncidentArrays} |->
     CHOOSE a \in IncidentArrays : ArrayText(a) = t]

\* JSON.parse / Response.json(): ok = FALSE is the SyntaxError they throw.
JSONparse(text) ==
  CASE text = TxtTok1 -> [ok |-> TRUE, value |-> [EmptyObj EXCEPT !.token = "t1"]]
    [] text = TxtTok2 -> [ok |-> TRUE, value |-> [EmptyObj EXCEPT !.token = "t2"]]
    [] text = TxtNoTok -> [ok |-> TRUE, value |-> [EmptyObj EXCEPT !.token = ""]]
    [] text = TxtErr -> [ok |-> TRUE, value |-> [EmptyObj EXCEPT !.error = "denied"]]
    [] text = TxtMsg -> [ok |-> TRUE, value |-> [EmptyObj EXCEPT !.message = "ok"]]
    [] text = TxtNull -> [ok |-> TRUE, value |-> JNull]
    [] text \in DOMAIN ParsedIncident ->
         [ok |-> TRUE, value |-> [EmptyObj EXCEPT !.incident = ParsedIncident[text]]]
    [] text \in DOMAIN ParsedArray ->
         [ok |-> TRUE,
          value |-> [EmptyObj EXCEPT !.type = "array", !.items = ParsedArray[text]]]
    [] OTHER -> [ok |-> FALSE, value |-> JNull]

\* Content-Type headers of an upstream reply (Undefined: no header, get() is null).
CtJson == "application/json; charset=utf-8"
CtHtml == "text/html"
ContentTypes == {CtJson, CtHtml, Undefined}

\* contentType.includes('application/json')
IncludesJson(ct) == ct = CtJson

Statuses == {200, 201, 204, 401, 403, 404}

\* Response.ok of node-fetch
Ok(status) == status >= 200 /\ status <= 299

\* The outcome of one upstream fetch: it throws (failed) or it returns a reply.
FetchFailed == [failed |-> TRUE, status |-> 0, contentType |-> Undefined, text |-> TxtEmpty]
NoReply == [failed |-> FALSE, status |-> 0, contentType |-> Undefined, text |-> TxtEmpty]
FetchErrorMessage == "request to upstream failed, reason: connect ECONNREFUSED"

\* Texts the upstream sends: it issues bearer tokens in replies to login only.
DomainTexts == {TxtErr, TxtMsg, TxtNull, TxtHtml, TxtEmpty}
LoginTexts == DomainTexts \cup {TxtTok1, TxtTok2, TxtNoTok}

UpstreamOutcomes(route) ==
  {FetchFailed} \cup
  [failed : {FALSE}, status : Statuses, contentType : ContentTypes,
   text : IF route = "login" THEN LoginTexts ELSE DomainTexts]

----------------------------------------------------------------------------
(* Requests, upstream calls, responses *)

ProtectedRoutes == {"list", "get", "create", "update", "delete", "escalate"}
OpenRoutes == {"login", "register", "logout"}
Routes == ProtectedRoutes \cup OpenRoutes
IdRoutes == {"get", "update", "delete", "escalate"}
BodyRoutes == {"create", "update"}

\* req.body of a browser request, as bodyParser.json() parsed it ({} without a body).
EmptyBody ==
  [username |-> Undefined, password |-> Undefined, title |-> Undefined,
   reporter |-> Undefined, type |-> Undefined]
Credentials == [EmptyBody EXCEPT !.username = "alice", !.password = "pw"]
IncidentBody(d) ==
  [EmptyBody EXCEPT !.title = d.title, !.reporter = d.reporter, !.type = d.type]
IncidentA == IncidentBody(ServerDown)
IncidentB == IncidentBody(DiskFull)
IncidentBodies == {IncidentA, IncidentB}

\* JSON.stringify of a request body: fields that are undefined are left out.
JSONstringify(b) ==
  CASE b = Credentials -> "{username:alice,password:pw}"
    [] b = IncidentA -> "{title:Server down,reporter:alice,type:outage}"
    [] b = IncidentB -> "{title:Disk full,reporter:bob,type:capacity}"
    [] OTHER -> "{}"

NoReq == [sess |-> "s1", route |-> "logout", id |-> 0, body |-> EmptyBody, cookie |-> Undefined]

\* The Authorization header of an upstream call (`Bearer ${req.backendToken}`).
NoAuthorization == [scheme |-> "", credentials |-> Undefined]
Bearer(token) == [scheme |-> "Bearer", credentials |-> token]

NoCall == [method |-> "", path |-> "", id |-> 0, authorization |-> NoAuthorization,
           body |-> Undefined]

\* A Set-Cookie directive of a response.
NoCookie ==
  [op |-> "none", name |-> "", value |-> Undefined, httpOnly |-> FALSE,
   secure |-> FALSE, maxAge |-> 0, sameSite |-> ""]

NoRes == [sent |-> FALSE, unhandled |-> FALSE, status |-> 0, body |-> JNull, cookie |-> NoCookie]

Idle == [phase |-> "idle", req |-> NoReq, token |-> Undefined, calls |-> <<>>,
         up |-> NoReply, res |-> NoRes]

----------------------------------------------------------------------------
(* Express response helpers *)

\* res.status(status).json(body), with the cookie directive set before it
Json(status, body, cookie) ==
  [sent |-> TRUE, unhandled |-> FALSE, status |-> status, body |-> body, cookie |-> cookie]

ErrorBody(msg) == [EmptyObj EXCEPT !.error = msg]
MessageBody(msg) == [EmptyObj EXCEPT !.message = msg]

\* maxAge of the session cookie, in milliseconds
MaxAgeMs == 3600000

\* Mutant of resCookie: the cookie is readable by scripts (httpOnly left out).
resCookie_Readable(token, production) ==
  [op |-> "set", name |-> "jwtToken", value |-> token, httpOnly |-> FALSE,
   secure |-> production, maxAge |-> MaxAgeMs, sameSite |-> "Lax"]

\* res.cookie('jwtToken', token, {httpOnly, secure, maxAge, sameSite})
resCookie(token, production) ==
  [op |-> "set", name |-> "jwtToken", value |-> token, httpOnly |-> TRUE,
   secure |-> production, maxAge |-> MaxAgeMs, sameSite |-> "Lax"]

\* res.clearCookie('jwtToken')
clearCookie ==
  [op |-> "clear", name |-> "jwtToken", value |-> Undefined, httpOnly |-> FALSE,
   secure |-> FALSE, maxAge |-> 0, sameSite |-> ""]

\* Mutant of SessionExpired: the status is mirrored but the cookie is not cleared.
SessionExpired_KeepsCookie(status) ==
  Json(status, ErrorBody("Session expired or invalid token. Please log in again."),
       NoCookie)

\* The reply every protected handler gives to an upstream 401 or 403.
SessionExpired(status) ==
  Json(status, ErrorBody("Session expired or invalid token. Please log in again."),
       clearCookie)

----------------------------------------------------------------------------
(* Handlers: the upstream call each one issues, and its continuation *)

\* Mutant of proxyAuthenticate: next() is called whether or not there is a token.
proxyAuthenticate_AlwaysNext(req) ==
  [next |-> TRUE, backendToken |-> req.cookie, res |-> NoRes]

\* Mutant of proxyAuthenticate: the token is kept in a variable of the module that
\* all requests share, so a request is forwarded with the token of the request that
\* is already waiting for the upstream.
proxyAuthenticate_SharedToken(req) ==
  LET waiting == {j \in Slots : xch[j].phase = "awaiting" /\ Truthy(xch[j].token)} IN
  IF ~Truthy(req.cookie)
  THEN [next |-> FALSE, backendToken |-> Undefined,
        res |-> Json(401, ErrorBody("Authentication required. No token found."), NoCookie)]
  ELSE [next |-> TRUE,
        backendToken |-> IF waiting # {} THEN xch[CHOOSE j \in waiting : TRUE].token
                         ELSE req.cookie,
        res |-> NoRes]

\* proxyAuthenticate: next = TRUE passes the request on with req.backendToken.
proxyAuthenticate(req) ==
  IF ~Truthy(req.cookie)
  THEN [next |-> FALSE, backendToken |-> Undefined,
        res |-> Json(401, ErrorBody("Authentication required. No token found."), NoCookie)]
  ELSE [next |-> TRUE, backendToken |-> req.cookie, res |-> NoRes]

\* POST /api/login
loginFetch(req) ==
  [method |-> "POST", path |-> "/api/login", id |-> 0, authorization |-> NoAuthorization,
   body |-> JSONstringify([EmptyBody EXCEPT !.username = req.body.username,
                                            !.password = req.body.password])]

\* Mutant of postLogin: the upstream status alone decides that the login succeeded.
postLogin_StatusOnly(up, production) ==
  LET data == JSONparse(up.text) IN
  IF up.failed \/ ~data.ok \/ data.value.type = "null"
  THEN Json(500, ErrorBody("Internal server error during login proxy."), NoCookie)
  ELSE IF Ok(up.status)
  THEN Json(200, MessageBody("Login successful"), resCookie(data.value.token, production))
  ELSE Json(up.status,
            ErrorBody(IF Truthy(data.value.error) THEN data.value.error ELSE "Login failed"),
            NoCookie)

\* Mutant of postLogin: the upstream's login body is passed on to the browser.
postLogin_EchoesBody(up, production) ==
  LET data == JSONparse(up.text) IN
  IF up.failed \/ ~data.ok \/ data.value.type = "null"
  THEN Json(500, ErrorBody("Internal server error during login proxy."), NoCookie)
  ELSE IF Ok(up.status) /\ Truthy(data.value.token)
  THEN Json(200, data.value, resCookie(data.value.token, production))
  ELSE Json(up.status,
            ErrorBody(IF Truthy(data.value.error) THEN data.value.error ELSE "Login failed"),
            NoCookie)

postLogin(up, production) ==
  LET data == JSONparse(up.text) IN
  IF up.failed \/ ~data.ok \/ data.value.type = "null"
  THEN \* fetch or json() threw, or data.token of null threw: the catch block
       Json(500, ErrorBody("Internal server error during login proxy."), NoCookie)
  ELSE IF Ok(up.status) /\ Truthy(data.value.token)
  THEN Json(200, MessageBody("Login successful"), resCookie(data.value.token, production))
  ELSE Json(up.status,
            ErrorBody(IF Truthy(data.value.error) THEN data.value.error ELSE "Login failed"),
            NoCookie)

\* POST /api/register
registerFetch(req) ==
  [method |-> "POST", path |-> "/api/register", id |-> 0, authorization |-> NoAuthorization,
   body |-> JSONstringify([EmptyBody EXCEPT !.username = req.body.username,
                                            !.password = req.body.password])]

\* Mutant of postRegister: an upstream 401 or 403 clears the session cookie, as in
\* the protected handlers.
postRegister_ClearsCookie(up) ==
  LET data == JSONparse(up.text) IN
  IF up.failed
  THEN Json(500, [ErrorBody("Internal server error during registration proxy.")
                    EXCEPT !.details = FetchErrorMessage], NoCookie)
  ELSE IF up.status = 401 \/ up.status = 403
  THEN SessionExpired(up.status)
  ELSE IF ~data.ok
  THEN Json(500, [ErrorBody("Backend returned non-JSON response")
                    EXCEPT !.response = up.text], NoCookie)
  ELSE Json(up.status, data.value, NoCookie)

postRegister(up) ==
  LET data == JSONparse(up.text) IN
  IF up.failed
  THEN Json(500, [ErrorBody("Internal server error during registration proxy.")
                    EXCEPT !.details = FetchErrorMessage], NoCookie)
  ELSE IF ~data.ok
  THEN Json(500, [ErrorBody("Backend returned non-JSON response")
                    EXCEPT !.response = up.text], NoCookie)
  ELSE Json(up.status, data.value, NoCookie)

\* handleGetIncidents: GET /api/incidents and GET /api/incidents/:id
getIncidentsFetch(req, token) ==
  [method |-> "GET", path |-> IF req.id # 0 THEN "/api/incidents/:id" ELSE "/api/incidents",
   id |-> req.id, authorization |-> Bearer(token), body |-> Undefined]

\* Mutant of handleGetIncidents: the catch block clears the session cookie as well.
handleGetIncidents_ClearsOnError(up) ==
  LET data == JSONparse(up.text) IN
  IF up.failed
  THEN Json(500, ErrorBody("Internal server error during incident fetch proxy."), clearCookie)
  ELSE IF up.status = 401 \/ up.status = 403
  THEN SessionExpired(up.status)
  ELSE IF up.contentType = Undefined \/ ~IncludesJson(up.contentType)
  THEN Json(500, [ErrorBody("Backend service unavailable or incorrect response format")
                    EXCEPT !.details = up.text], NoCookie)
  ELSE IF ~data.ok
  THEN Json(500, ErrorBody("Internal server error during incident fetch proxy."), clearCookie)
  ELSE Json(up.status, data.value, NoCookie)

\* Mutant of handleGetIncidents: the upstream's status is passed on without its data.
handleGetIncidents_NoData(up) ==
  IF up.failed
  THEN Json(500, ErrorBody("Internal server error during incident fetch proxy."), NoCookie)
  ELSE IF up.status = 401 \/ up.status = 403
  THEN SessionExpired(up.status)
  ELSE Json(up.status, [EmptyObj EXCEPT !.type = "array"], NoCookie)

handleGetIncidents(up) ==
  LET data == JSONparse(up.text) IN
  IF up.failed
  THEN Json(500, ErrorBody("Internal server error during incident fetch proxy."), NoCookie)
  ELSE IF up.status = 401 \/ up.status = 403
  THEN SessionExpired(up.status)
  ELSE IF up.contentType = Undefined \/ ~IncludesJson(up.contentType)
  THEN Json(500, [ErrorBody("Backend service unavailable or incorrect response format")
                    EXCEPT !.details = up.text], NoCookie)
  ELSE IF ~data.ok
  THEN Json(500, ErrorBody("Internal server error during incident fetch proxy."), NoCookie)
  ELSE Json(up.status, data.value, NoCookie)

\* Mutant of createFetch: the request body is not passed on.
createFetch_EmptyBody(req, token) ==
  [method |-> "POST", path |-> "/api/incidents", id |-> 0, authorization |-> Bearer(token),
   body |-> JSONstringify(EmptyBody)]

\* POST /api/incidents
createFetch(req, token) ==
  [method |-> "POST", path |-> "/api/incidents", id |-> 0, authorization |-> Bearer(token),
   body |-> JSONstringify(req.body)]

\* Mutant of postIncidents: no try/catch, so a failed fetch or json() is an unhandled
\* rejection and the request is never answered.
postIncidents_NoCatch(up) ==
  LET data == JSONparse(up.text) IN
  IF up.failed
  THEN [NoRes EXCEPT !.unhandled = TRUE]
  ELSE IF up.status = 401 \/ up.status = 403
  THEN SessionExpired(up.status)
  ELSE IF ~data.ok
  THEN [NoRes EXCEPT !.unhandled = TRUE]
  ELSE Json(up.status, data.value, NoCookie)

postIncidents(up) ==
  LET data == JSONparse(up.text) IN
  IF up.failed
  THEN Json(500, ErrorBody("Internal server error during incident creation proxy."), NoCookie)
  ELSE IF up.status = 401 \/ up.status = 403
  THEN SessionExpired(up.status)
  ELSE IF ~data.ok
  THEN Json(500, ErrorBody("Internal server error during incident creation proxy."), NoCookie)
  ELSE Json(up.status, data.value, NoCookie)

\* Mutant of updateFetch: the update is sent as the creation of a new incident.
updateFetch_AsCreate(req, token) ==
  [method |-> "POST", path |-> "/api/incidents", id |-> 0, authorization |-> Bearer(token),
   body |-> JSONstringify(req.body)]

\* PUT /api/incidents/:id
updateFetch(req, token) ==
  [method |-> "PUT", path |-> "/api/incidents/:id", id |-> req.id,
   authorization |-> Bearer(token), body |-> JSONstringify(req.body)]

putIncident(up) ==
  LET data == JSONparse(up.text) IN
  IF up.failed
  THEN Json(500, ErrorBody("Internal server error during incident update proxy."), NoCookie)
  ELSE IF up.status = 401 \/ up.status = 403
  THEN SessionExpired(up.status)
  ELSE IF ~data.ok
  THEN Json(500, ErrorBody("Internal server error during incident update proxy."), NoCookie)
  ELSE Json(up.status, data.value, NoCookie)

\* DELETE /api/incidents/:id
deleteFetch(req, token) ==
  [method |-> "DELETE", path |-> "/api/incidents/:id", id |-> req.id,
   authorization |-> Bearer(token), body |-> Undefined]

\* Mutant of deleteIncident: the 401/403 branch has no return, so the handler goes on
\* to send a second response; that send throws, the catch block's send throws too and
\* the handler ends in an unhandled rejection.
deleteIncident_NoReturn(up) ==
  LET data == JSONparse(up.text) IN
  IF up.failed
  THEN Json(500, ErrorBody("Internal server error during incident deletion proxy."), NoCookie)
  ELSE IF up.status = 401 \/ up.status = 403
  THEN [SessionExpired(up.status) EXCEPT !.unhandled = TRUE]
  ELSE IF ~data.ok
  THEN Json(500, ErrorBody("Internal server error during incident deletion proxy."), NoCookie)
  ELSE Json(up.status, data.value, NoCookie)

deleteIncident(up) ==
  LET data == JSONparse(up.text) IN
  IF up.failed
  THEN Json(500, ErrorBody("Internal server error during incident deletion proxy."), NoCookie)
  ELSE IF up.status = 401 \/ up.status = 403
  THEN SessionExpired(up.status)
  ELSE IF ~data.ok
  THEN Json(500, ErrorBody("Internal server error during incident deletion proxy."), NoCookie)
  ELSE Json(up.status, data.value, NoCookie)

\* Mutant of escalateFetch: the upstream call is a GET and loses the incident id.
escalateFetch_Get(req, token) ==
  [method |-> "GET", path |-> "/api/escalate/:id", id |-> 0,
   authorization |-> Bearer(token), body |-> Undefined]

\* handleEscalate: POST /api/escalate/:id
escalateFetch(req, token) ==
  [method |-> "POST", path |-> "/api/escalate/:id", id |-> req.id,
   authorization |-> Bearer(token), body |-> Undefined]

handleEscalate(up) ==
  LET data == JSONparse(up.text) IN
  IF up.failed
  THEN Json(500, ErrorBody("Internal server error during escalation proxy."), NoCookie)
  ELSE IF up.status = 401 \/ up.status = 403
  THEN SessionExpired(up.status)
  ELSE IF ~data.ok
  THEN Json(500, ErrorBody("Internal server error during escalation proxy."), NoCookie)
  ELSE Json(up.status, data.value, NoCookie)

\* Mutant of postLogout: the cookie is left in place.
postLogout_KeepsCookie ==
  Json(200, MessageBody("Logged out successfully."), NoCookie)

\* POST /api/logout
postLogout ==
  Json(200, MessageBody("Logged out successfully."), clearCookie)

----------------------------------------------------------------------------
(* Route table *)

\* The verb and path under which each route is registered with the Express app.
Registered(route) ==
  CASE route = "login" -> [method |-> "POST", path |-> "/api/login"]
    [] route = "register" -> [method |-> "POST", path |-> "/api/register"]
    [] route = "logout" -> [method |-> "POST", path |-> "/api/logout"]
    [] route = "list" -> [method |-> "GET", path |-> "/api/incidents"]
    [] route = "get" -> [method |-> "GET", path |-> "/api/incidents/:id"]
    [] route = "create" -> [method |-> "POST", path |-> "/api/incidents"]
    [] route = "update" -> [method |-> "PUT", path |-> "/api/incidents/:id"]
    [] route = "delete" -> [method |-> "DELETE", path |-> "/api/incidents/:id"]
    [] route = "escalate" -> [method |-> "POST", path |-> "/api/escalate/:id"]

\* Mutant of Guarded: register is put behind proxyAuthenticate too.
Guarded_WithRegister == {"list", "get", "create", "update", "delete", "escalate", "register"}

\* The routes registered with proxyAuthenticate in front of their handler.
Guarded == {"list", "get", "create", "update", "delete", "escalate"}

\* The upstream call a route's handler issues.
Fetch(req, token) ==
  CASE req.route = "login" -> loginFetch(req)
    [] req.route = "register" -> registerFetch(req)
    [] req.route \in {"list", "get"} -> getIncidentsFetch(req, token)
    [] req.route = "create" -> createFetch(req, token)
    [] req.route = "update" -> updateFetch(req, token)
    [] req.route = "delete" -> deleteFetch(req, token)
    [] req.route = "escalate" -> escalateFetch(req, token)

\* The continuation of a route's handler once its upstream call has settled.
Continue(req, up, production) ==
  CASE req.route = "login" -> postLogin(up, production)
    [] req.route = "register" -> postRegister(up)
    [] req.route \in {"list", "get"} -> handleGetIncidents(up)
    [] req.route = "create" -> postIncidents(up)
    [] req.route = "update" -> putIncident(up)
    [] req.route = "delete" -> deleteIncident(up)
    [] req.route = "escalate" -> handleEscalate(up)

\* Mutant of IssuedCalls: the upstream call is issued a second time.
IssuedCalls_Twice(req, token) == <<Fetch(req, token), Fetch(req, token)>>

\* The upstream calls a handler issues for one request: its single fetch.
IssuedCalls(req, token) == <<Fetch(req, token)>>

\* The requests a browser sends: route, :id parameter (0: none) and JSON body.
RequestShapes ==
  [route : {"login", "register"}, id : {0}, body : {Credentials}]
    \cup [route : {"logout", "list"}, id : {0}, body : {EmptyBody}]
    \cup [route : {"get", "delete", "escalate"}, id : Ids, body : {EmptyBody}]
    \cup [route : {"create"}, id : {0}, body : IncidentBodies]
    \cup [route : {"update"}, id : Ids, body : IncidentBodies]

----------------------------------------------------------------------------
(* Actions *)

\* An incident of the upstream's store; Absent: there is none with this id.
Absent == [present |-> FALSE, data |-> Blank]
Stored(d) == [present |-> TRUE, data |-> d]

\* The browser has completed no exchange yet.
NoLast == [route |-> "", id |-> 0, body |-> EmptyBody, status |-> 0, times |-> 0]

\* index.html as loaded: the auth section shows, the app section is hidden.
PageLoaded == [view |-> "auth", pending |-> ""]

Init ==
  /\ jar = [s \in Sessions |-> Undefined]
  /\ xch = [k \in Slots |-> Idle]
  /\ nodeEnv \in {"production", "development"}
  /\ alive = TRUE
  /\ faulted = FALSE
  /\ store = [n \in Ids |-> Absent]
  /\ last = NoLast
  /\ ui = [s \in Sessions |-> PageLoaded]

\* No exchange is in progress.
Quiet == \A k \in Slots : xch[k].phase = "idle"

\* Express's answer to a request that no registered route matches.
NotFound ==
  [sent |-> TRUE, unhandled |-> FALSE, status |-> 404,
   body |-> [EmptyObj EXCEPT !.type = "html"], cookie |-> NoCookie]

\* Express runs the middleware of the route that matches the request of session s and
\* the handler up to its upstream call (route "none": no route matches).
Handle(k, s, shape) ==
  LET req == [sess |-> s, route |-> shape.route, id |-> shape.id, body |-> shape.body,
              cookie |-> jar[s]]
      guard == proxyAuthenticate(req)
      responded(res) == [phase |-> "responded", req |-> req, token |-> Undefined,
                         calls |-> <<>>, up |-> NoReply, res |-> res]
  IN
  /\ alive
  /\ xch[k].phase = "idle"
  /\ xch' = [xch EXCEPT ![k] =
        IF req.route = "none" THEN responded(NotFound)
        ELSE IF req.route = "logout" THEN responded(postLogout)
        ELSE IF req.route \in Guarded /\ ~guard.next THEN responded(guard.res)
        ELSE LET token == IF req.route \in Guarded THEN guard.backendToken ELSE Undefined
             IN [phase |-> "awaiting", req |-> req, token |-> token,
                 calls |-> IssuedCalls(req, token), up |-> NoReply, res |-> NoRes]]
  /\ UNCHANGED <<jar, nodeEnv, alive, faulted, store, last>>

\* Browser session s sends a request.
Dispatch(k, s, shape) == Handle(k, s, shape) /\ UNCHANGED ui

\* The upstream call of exchange k returns up or throws; the handler runs to its end.
Settle(k, up) ==
  LET res == Continue(xch[k].req, up, nodeEnv = "production") IN
  /\ alive
  /\ xch[k].phase = "awaiting"
  /\ up \in UpstreamOutcomes(xch[k].req.route)
  /\ xch' = [xch EXCEPT ![k].phase = "responded", ![k].up = up, ![k].res = res]
  /\ alive' = ~res.unhandled
  /\ faulted' = (faulted \/ up.failed)
  /\ UNCHANGED <<jar, nodeEnv, store, last, ui>>

\* The browser's cookie store after a response with this Set-Cookie directive.
StoreCookie(old, cookie) ==
  CASE cookie.op = "set" -> cookie.value
    [] cookie.op = "clear" -> Undefined
    [] OTHER -> old

\* The browser receives the response of exchange k.
Deliver(k) ==
  /\ xch[k].phase = "responded"
  /\ jar' = [jar EXCEPT ![xch[k].req.sess] =
               IF xch[k].res.sent THEN StoreCookie(@, xch[k].res.cookie) ELSE @]
  /\ xch' = [xch EXCEPT ![k] = Idle]
  /\ UNCHANGED <<nodeEnv, alive, faulted, store, last, ui>>

\* A client that waits for each response before it sends its next request.
Next ==
  \/ \E k \in Slots, s \in Sessions, shape \in RequestShapes : Quiet /\ Dispatch(k, s, shape)
  \/ \E k \in Slots : xch[k].phase = "awaiting" /\
       \E up \in UpstreamOutcomes(xch[k].req.route) : Settle(k, up)
  \/ \E k \in Slots : Deliver(k)

Spec == Init /\ [][Next]_vars

\* The upstream replies of the runs in which every call settles: a failure, or a
\* reply that is accepted, rejected or not found, with or without a JSON body.
SettledOutcomes(route) ==
  {up \in UpstreamOutcomes(route) :
     \/ up.failed
     \/ /\ up.status \in {200, 401, 404}
        /\ up.contentType \in {CtJson, Undefined}
        /\ up.text \in (IF route = "login" THEN {TxtTok1, TxtErr, TxtEmpty}
                        ELSE {TxtMsg, TxtEmpty})}

NextFair ==
  \/ \E k \in Slots, s \in Sessions, shape \in RequestShapes : Quiet /\ Dispatch(k, s, shape)
  \/ \E k \in Slots : xch[k].phase = "awaiting" /\
       \E up \in SettledOutcomes(xch[k].req.route) : Settle(k, up)
  \/ \E k \in Slots : Deliver(k)

\* Every upstream call in progress returns or fails in the end, and every response
\* sent reaches the browser.
Fairness ==
  \A k \in Slots :
    /\ WF_vars(\E up \in SettledOutcomes(xch[k].req.route) : Settle(k, up))
    /\ WF_vars(Deliver(k))

SpecFair == Init /\ [][NextFair]_vars /\ Fairness

----------------------------------------------------------------------------
(* Overlapping requests *)

\* The requests and upstream replies of the runs in which requests overlap.
OverlapShapes ==
  {shape \in RequestShapes :
     shape.route \in {"login", "logout", "list", "create"} /\ shape.body # IncidentB}

OverlapOutcomes(route) ==
  {up \in UpstreamOutcomes(route) :
     /\ ~up.failed
     /\ up.status \in (IF route = "login" THEN {200} ELSE {200, 401})
     /\ up.contentType = CtJson
     /\ up.text \in (IF route = "login" THEN {TxtTok1, TxtTok2} ELSE {TxtMsg})}

\* Browsers send requests while others are in progress; the upstream replies in any
\* order and the responses arrive in any order.
NextOverlap ==
  \/ \E k \in Slots, s \in Sessions, shape \in OverlapShapes : Dispatch(k, s, shape)
  \/ \E k \in Slots : xch[k].phase = "awaiting" /\
       \E up \in OverlapOutcomes(xch[k].req.route) : Settle(k, up)
  \/ \E k \in Slots : Deliver(k)

\* NODE_ENV only sets the cookie's secure attribute: these runs are all in production.
InitOverlap == Init /\ nodeEnv = "production"

SpecOverlap == InitOverlap /\ [][NextOverlap]_vars

----------------------------------------------------------------------------
(* A stable upstream *)

MaxTimes == 2

\* The token the upstream issues and accepts.
StableToken == "t1"

JsonReply(status, text) ==
  [failed |-> FALSE, status |-> status, contentType |-> CtJson, text |-> text]

\* The incidents of store st with ids up to n, in ascending order of id.
RECURSIVE ItemsUpTo(_, _)
ItemsUpTo(st, n) ==
  IF n = 0 THEN <<>>
  ELSE IF st[n].present THEN Append(ItemsUpTo(st, n - 1), IncidentOf(n, st[n].data))
  ELSE ItemsUpTo(st, n - 1)

Items(st) == ItemsUpTo(st, MaxId)

\* The incident data that the body of an upstream call spells out.
CallData(text) ==
  CASE text = JSONstringify(IncidentA) -> ServerDown
    [] text = JSONstringify(IncidentB) -> DiskFull
    [] OTHER -> Blank

FreeIds(st) == {n \in Ids : ~st[n].present}
NextId(st) == CHOOSE n \in FreeIds(st) : \A m \in FreeIds(st) : n <= m

\* What the upstream is asked to do by a call.
Asked(call) ==
  CASE call.method = "POST" /\ call.path = "/api/login" -> "login"
    [] call.method = "GET" /\ call.path = "/api/incidents" -> "list"
    [] call.method = "POST" /\ call.path = "/api/incidents" -> "create"
    [] call.method = "GET" /\ call.path = "/api/incidents/:id" -> "get"
    [] call.method = "PUT" /\ call.path = "/api/incidents/:id" -> "update"
    [] OTHER -> "unknown"

Authorized(call) == call.authorization = Bearer(StableToken)

\* The store after the upstream has served a call.
StableStore(st, call) ==
  CASE Asked(call) = "create" /\ Authorized(call) /\ FreeIds(st) # {} ->
         [st EXCEPT ![NextId(st)] = Stored(CallData(call.body))]
    [] Asked(call) = "update" /\ Authorized(call) /\ call.id \in Ids /\ st[call.id].present ->
         [st EXCEPT ![call.id] = Stored(CallData(call.body))]
    [] OTHER -> st

\* The upstream's reply to a call: JSON throughout.
StableReply(st, call) ==
  CASE Asked(call) = "login" -> JsonReply(200, TxtTok1)
    [] Asked(call) = "unknown" -> JsonReply(404, TxtErr)
    [] ~Authorized(call) -> JsonReply(401, TxtErr)
    [] Asked(call) = "list" -> JsonReply(200, ArrayText(Items(st)))
    [] Asked(call) = "create" ->
         IF FreeIds(st) = {} THEN JsonReply(507, TxtErr)
         ELSE JsonReply(201, IncidentText(IncidentOf(NextId(st), CallData(call.body))))
    [] call.id \notin Ids \/ ~st[call.id].present -> JsonReply(404, TxtErr)
    [] Asked(call) = "get" ->
         JsonReply(200, IncidentText(IncidentOf(call.id, st[call.id].data)))
    [] OTHER -> JsonReply(200, IncidentText(IncidentOf(call.id, CallData(call.body))))

\* The requests of the client of the stable upstream.
StableShapes ==
  {shape \in RequestShapes : shape.route \in {"login", "list", "get", "create", "update"}}

\* The stable upstream serves the call of exchange k; the handler runs to its end.
SettleStable(k) ==
  LET call == xch[k].calls[1]
      up == StableReply(store, call)
      res == Continue(xch[k].req, up, nodeEnv = "production")
  IN
  /\ alive
  /\ xch[k].phase = "awaiting"
  /\ xch' = [xch EXCEPT ![k].phase = "responded", ![k].up = up, ![k].res = res]
  /\ store' = StableStore(store, call)
  /\ alive' = ~res.unhandled
  /\ UNCHANGED <<jar, nodeEnv, faulted, last, ui>>

\* The browser receives the response of exchange k and remembers the exchange, and
\* how many times in a row it has completed this exchange with this status.
DeliverStable(k) ==
  LET again == /\ last.route = xch[k].req.route
               /\ last.id = xch[k].req.id
               /\ last.body = xch[k].req.body
               /\ last.status = xch[k].res.status
  IN
  /\ xch[k].phase = "responded"
  /\ jar' = [jar EXCEPT ![xch[k].req.sess] =
               IF xch[k].res.sent THEN StoreCookie(@, xch[k].res.cookie) ELSE @]
  /\ xch' = [xch EXCEPT ![k] = Idle]
  /\ last' = [route |-> xch[k].req.route, id |-> xch[k].req.id, body |-> xch[k].req.body,
              status |-> xch[k].res.status,
              times |-> IF again /\ last.times < MaxTimes THEN last.times + 1
                        ELSE IF again THEN MaxTimes ELSE 1]
  /\ UNCHANGED <<nodeEnv, alive, faulted, store, ui>>

\* One browser session that waits for each response before its next request, in
\* front of the stable upstream.
NextStable ==
  \/ \E shape \in StableShapes : Quiet /\ Dispatch(1, "s1", shape)
  \/ \E k \in Slots : SettleStable(k)
  \/ \E k \in Slots : DeliverStable(k)

SpecStable == InitOverlap /\ [][NextStable]_vars

----------------------------------------------------------------------------
(* The page: script.js *)

\* The request that a function of script.js sends with fetch (a fetch without a
\* method option is a GET).
UiFetch(fn) ==
  CASE fn = "checkAuthStatus" -> [method |-> "GET", path |-> "/api/incidents"]
    [] fn = "handleLogin" -> [method |-> "POST", path |-> "/api/login"]
    [] fn = "handleRegister" -> [method |-> "POST", path |-> "/api/register"]
    [] fn = "handleLogout" -> [method |-> "POST", path |-> "/api/logout"]
    [] fn = "fetchIncidents" -> [method |-> "GET", path |-> "/api/incidents"]
    [] fn = "handleCreateIncident" -> [method |-> "POST", path |-> "/api/incidents"]
    [] fn = "showEditModal" -> [method |-> "GET", path |-> "/api/incidents/:id"]
    [] fn = "handleEditIncident" -> [method |-> "PUT", path |-> "/api/incidents/:id"]
    [] fn = "handleEscalate" -> [method |-> "GET", path |-> "/api/escalate/:id"]
    [] fn = "handleConfirmDelete" -> [method |-> "DELETE", path |-> "/api/incidents/:id"]

\* Express routing: the registered route with this method and path, "none" without one.
RouteOf(request) ==
  LET matching == {r \in Routes : Registered(r) = request} IN
  IF matching = {} THEN "none" ELSE CHOOSE r \in matching : TRUE

\* The functions the page can start in a view: the auth section holds the login form
\* and the register button (checkAuthStatus runs when the page loads), the app section
\* the rest.
Offered(view) ==
  IF view = "auth" THEN {"checkAuthStatus", "handleLogin", "handleRegister"}
  ELSE {"handleLogout", "fetchIncidents", "handleCreateIncident", "showEditModal",
        "handleEditIncident", "handleEscalate", "handleConfirmDelete"}

\* The functions of the page with the incident id and the form data they send.
UiRequests ==
  [fn : {"checkAuthStatus", "handleLogout", "fetchIncidents"}, id : {0}, body : {EmptyBody}]
    \cup [fn : {"handleLogin", "handleRegister"}, id : {0}, body : {Credentials}]
    \cup [fn : {"handleCreateIncident"}, id : {0}, body : IncidentBodies]
    \cup [fn : {"showEditModal", "handleEscalate", "handleConfirmDelete"}, id : Ids,
          body : {EmptyBody}]
    \cup [fn : {"handleEditIncident"}, id : Ids, body : IncidentBodies]

\* The functions that test response.status === 401 and then call showAuth().
ChecksFor401 ==
  {"fetchIncidents", "handleCreateIncident", "showEditModal", "handleEditIncident",
   "handleConfirmDelete"}

\* The view after function fn has dealt with the response res to its request.
\* handleEscalate does not await its fetch: it tests the promise, whose status and ok
\* are undefined, and never sees the response.
React(fn, res, view) ==
  CASE ~res.sent -> view
    [] fn = "checkAuthStatus" -> IF Ok(res.status) THEN "app" ELSE view
    [] fn = "handleLogin" ->
         IF res.body.type # "html" /\ Ok(res.status) THEN "app" ELSE view
    [] fn = "handleLogout" -> "auth"
    [] fn \in ChecksFor401 -> IF res.status = 401 THEN "auth" ELSE view
    [] OTHER -> view

\* The page of session s starts function r.fn, which sends its request.
Click(k, s, r) ==
  /\ r.fn \in Offered(ui[s].view)
  /\ ui[s].pending = ""
  /\ Handle(k, s, [route |-> RouteOf(UiFetch(r.fn)), id |-> r.id, body |-> r.body])
  /\ ui' = [ui EXCEPT ![s].pending = r.fn]

\* The response of exchange k arrives: the browser applies its Set-Cookie and the
\* waiting function of the page goes on.
DeliverUi(k) ==
  LET s == xch[k].req.sess IN
  /\ xch[k].phase = "responded"
  /\ jar' = [jar EXCEPT ![s] =
               IF xch[k].res.sent THEN StoreCookie(@, xch[k].res.cookie) ELSE @]
  /\ xch' = [xch EXCEPT ![k] = Idle]
  /\ ui' = [ui EXCEPT ![s] = [view |-> React(ui[s].pending, xch[k].res, ui[s].view),
                              pending |-> ""]]
  /\ UNCHANGED <<nodeEnv, alive, faulted, store, last>>

\* One page, whose user waits for each response, in front of the gateway.
NextUi ==
  \/ \E r \in UiRequests : Quiet /\ Click(1, "s1", r)
  \/ \E k \in Slots : xch[k].phase = "awaiting" /\
       \E up \in UpstreamOutcomes(xch[k].req.route) : Settle(k, up)
  \/ \E k \in Slots : DeliverUi(k)

SpecUi == Init /\ [][NextUi]_vars

----------------------------------------------------------------------------
(* Vocabulary of the properties *)

\* Exchange k has been answered by the gateway (the response is on its way).
Responded(k) == xch[k].phase = "responded"

\* Exchange k has been answered after its upstream call returned a reply.
Replied(k) == Responded(k) /\ xch[k].calls # <<>> /\ ~xch[k].up.failed

\* The upstream reply carries JSON with a usable (truthy) token field.
HasToken(up) ==
  /\ JSONparse(up.text).ok
  /\ JSONparse(up.text).value.type = "object"
  /\ Truthy(JSONparse(up.text).value.token)

TokenOf(up) == JSONparse(up.text).value.token

BodyFields == {"token", "error", "message", "response", "details", "title"}

\* The string str holds token t: it is the token or a text that spells it out.
Mentions(str, t) ==
  \/ str = t
  \/ t = "t1" /\ str = TxtTok1
  \/ t = "t2" /\ str = TxtTok2

\* The response body holds token t in one of its fields.
BodyHolds(body, t) == \E f \in BodyFields : Mentions(body[f], t)

OneHourMs == 60 * 60 * 1000

----------------------------------------------------------------------------
(* C1 *)

\* C1: a request to a protected route (list, get, create, update, delete, escalate)
\* that carries no session cookie is answered 401 with the body
\* {error: "Authentication required. No token found."} and no upstream call is
\* issued for it.
C1_NoCookieNoUpstream ==
  \A k \in Slots :
    (xch[k].phase # "idle" /\ xch[k].req.route \in ProtectedRoutes
       /\ xch[k].req.cookie = Undefined)
    => /\ Responded(k)
       /\ xch[k].res.sent
       /\ xch[k].res.status = 401
       /\ xch[k].res.body = ErrorBody("Authentication required. No token found.")
       /\ xch[k].calls = <<>>

C1_Witness ==
  \E k \in Slots :
    /\ Responded(k)
    /\ xch[k].req.route = "escalate"
    /\ xch[k].req.cookie = Undefined
    /\ xch[k].res.status = 401

----------------------------------------------------------------------------
(* C2 *)

\* C2: on every protected route, when the upstream answers 401 or 403 the response
\* clears the session cookie, has the upstream's status and has the body
\* {error: "Session expired or invalid token. Please log in again."}.
C2_RejectedTokenClearsCookie ==
  \A k \in Slots :
    (Replied(k) /\ xch[k].req.route \in ProtectedRoutes
       /\ xch[k].up.status \in {401, 403})
    => /\ xch[k].res.sent
       /\ xch[k].res.cookie.op = "clear"
       /\ xch[k].res.cookie.name = "jwtToken"
       /\ xch[k].res.status = xch[k].up.status
       /\ xch[k].res.body =
            ErrorBody("Session expired or invalid token. Please log in again.")

C2_Witness ==
  \E k \in Slots :
    /\ Replied(k)
    /\ xch[k].req.route = "delete"
    /\ xch[k].up.status = 403
    /\ xch[k].res.cookie.op = "clear"

----------------------------------------------------------------------------
(* C3 *)

\* C3: when the upstream accepts a login (status 200-299) and its body has a token,
\* the response is 200 with the success message, sets cookie jwtToken to that token
\* with HttpOnly, SameSite=Lax and a max-age of one hour, and its body does not hold
\* the token.
C3_LoginIssuesCookie ==
  \A k \in Slots :
    (Replied(k) /\ xch[k].req.route = "login"
       /\ Ok(xch[k].up.status) /\ HasToken(xch[k].up))
    => /\ xch[k].res.sent
       /\ xch[k].res.status = 200
       /\ xch[k].res.body = MessageBody("Login successful")
       /\ xch[k].res.cookie.op = "set"
       /\ xch[k].res.cookie.name = "jwtToken"
       /\ xch[k].res.cookie.value = TokenOf(xch[k].up)
       /\ xch[k].res.cookie.httpOnly
       /\ xch[k].res.cookie.sameSite = "Lax"
       /\ xch[k].res.cookie.maxAge = OneHourMs
       /\ ~BodyHolds(xch[k].res.body, TokenOf(xch[k].up))

C3_Witness ==
  \E k \in Slots :
    /\ Replied(k)
    /\ xch[k].req.route = "login"
    /\ xch[k].up.status = 201
    /\ xch[k].up.text = TxtTok2
    /\ xch[k].res.cookie.value = "t2"

----------------------------------------------------------------------------
(* C4 *)

\* C4: when the upstream reports login success (status 200-299) but its body has no
\* usable token, no session cookie is set, and the response is not the 200 success
\* message: its status is not 200 or its body is an error body.
C4_LoginWithoutToken ==
  \A k \in Slots :
    (Replied(k) /\ xch[k].req.route = "login"
       /\ Ok(xch[k].up.status) /\ ~HasToken(xch[k].up))
    => /\ xch[k].res.sent
       /\ xch[k].res.cookie.op = "none"
       /\ (xch[k].res.status # 200 \/ Truthy(xch[k].res.body.error))
       /\ xch[k].res.body # MessageBody("Login successful")

C4_Witness ==
  \E k \in Slots :
    /\ Replied(k)
    /\ xch[k].req.route = "login"
    /\ xch[k].up.status = 200
    /\ xch[k].up.text = TxtMsg
    /\ xch[k].res.status = 200
    /\ xch[k].res.body = ErrorBody("Login failed")

----------------------------------------------------------------------------
(* C5 *)

\* The response of exchange k is a login that the upstream accepted with token t.
AcceptedLogin(k, t) ==
  /\ Replied(k)
  /\ xch[k].req.route = "login"
  /\ Ok(xch[k].up.status)
  /\ HasToken(xch[k].up)
  /\ TokenOf(xch[k].up) = t

\* The response of exchange k is a logout, or a protected call that the upstream
\* answered 401 or 403.
LogoutOrRejected(k) ==
  \/ Responded(k) /\ xch[k].req.route = "logout"
  \/ Replied(k) /\ xch[k].req.route \in ProtectedRoutes /\ xch[k].up.status \in {401, 403}

\* C5: a session's cookie changes only along Anonymous -> Authenticated -> Anonymous:
\* whenever a step changes the cookie of session s, the step is the arrival of a
\* response to s, and either the cookie's new value is the token of a login that the
\* upstream accepted, or the cookie is gone and the response is a logout or a
\* protected call that the upstream answered 401 or 403.  No response of another
\* kind (register, failed login, successful protected call) changes the cookie.
C5_CookieLifecycle ==
  [][\A s \in Sessions :
       jar'[s] # jar[s] =>
         \E k \in Slots :
           /\ xch[k].req.sess = s
           /\ xch'[k].phase = "idle"
           /\ IF jar'[s] # Undefined
              THEN AcceptedLogin(k, jar'[s])
              ELSE LogoutOrRejected(k)]_vars

\* A session that logged in has its cookie and is being told that the upstream
\* rejected the token.
C5_Witness ==
  \E k \in Slots :
    /\ Replied(k)
    /\ xch[k].req.route = "list"
    /\ xch[k].up.status = 401
    /\ jar[xch[k].req.sess] = "t1"
    /\ xch[k].res.cookie.op = "clear"

----------------------------------------------------------------------------
(* C6 *)

\* C6: when the upstream call of a request throws (protected routes, login and
\* register), the request is answered 500 with a structured {error: ...} body, and
\* the gateway keeps serving: the process stays up and every handler that has run
\* to its end has sent its response.
C6_UpstreamFailureAnswered ==
  /\ \A k \in Slots :
       (Responded(k) /\ xch[k].up.failed)
       => /\ xch[k].res.sent
          /\ xch[k].res.status = 500
          /\ xch[k].res.body.type = "object"
          /\ Truthy(xch[k].res.body.error)
          /\ xch[k].res.cookie.op = "none"
  /\ \A k \in Slots : Responded(k) => xch[k].res.sent /\ ~xch[k].res.unhandled
  /\ alive

\* After an upstream failure, a later request is served with the upstream's answer.
C6_Witness ==
  /\ faulted
  /\ alive
  /\ \E k \in Slots :
       /\ Replied(k)
       /\ xch[k].req.route = "create"
       /\ xch[k].up.status = 201
       /\ xch[k].res.status = 201
       /\ xch[k].res.body = JSONparse(TxtMsg).value

----------------------------------------------------------------------------
(* C7 *)

----------------------------------------------------------------------------
(* C8 *)

\* The error messages with which a handler reports a non-JSON upstream body.
NonJsonErrors ==
  {"Backend returned non-JSON response",
   "Backend service unavailable or incorrect response format"}

\* C8: for every forwarding operation, when the upstream answers with a status in
\* 200-299 and a body that is not valid JSON, the response is 500 with an error that
\* describes a non-JSON upstream response, and it includes the raw upstream text.
C8_NonJsonBodyReported ==
  \A k \in Slots :
    (Replied(k) /\ Ok(xch[k].up.status) /\ ~JSONparse(xch[k].up.text).ok)
    => /\ xch[k].res.status = 500
       /\ xch[k].res.body.error \in NonJsonErrors
       /\ \/ xch[k].res.body.response = xch[k].up.text
          \/ xch[k].res.body.details = xch[k].up.text

----------------------------------------------------------------------------
(* C9 *)

\* C9: for every forwarding operation, when the upstream answers with a status
\* outside 200-299 other than 401 and 403, the response has that same status, with
\* the upstream's JSON error body if there is one and otherwise a generic error
\* message; the upstream's status is never replaced by another one.
C9_ErrorStatusMirrored ==
  \A k \in Slots :
    (Replied(k) /\ ~Ok(xch[k].up.status) /\ xch[k].up.status \notin {401, 403})
    => /\ xch[k].res.status = xch[k].up.status
       /\ IF JSONparse(xch[k].up.text).ok
          THEN xch[k].res.body = JSONparse(xch[k].up.text).value
          ELSE Truthy(xch[k].res.body.error)

----------------------------------------------------------------------------
(* C10 *)

\* C10: for register and every protected operation, when the upstream answers with
\* a status in 200-299 and a JSON body, the response has exactly that status and
\* exactly that body.
C10_SuccessMirrored ==
  \A k \in Slots :
    (Replied(k) /\ xch[k].req.route \in ProtectedRoutes \cup {"register"}
       /\ Ok(xch[k].up.status) /\ JSONparse(xch[k].up.text).ok)
    => /\ xch[k].res.status = xch[k].up.status
       /\ xch[k].res.body = JSONparse(xch[k].up.text).value

----------------------------------------------------------------------------
(* C11 *)

\* The request body that a forwarded body text stands for.
BodyOfText(text) ==
  CHOOSE b \in IncidentBodies \cup {EmptyBody, Credentials} : JSONstringify(b) = text

\* C11: every upstream call of a protected operation that passed the guard carries
\* Authorization: Bearer <t> with t the session cookie of that same request, and for
\* create and update the body of the upstream call is the request's JSON body.
C11_BearerAndBodyForwarded ==
  \A k \in Slots :
    (xch[k].phase # "idle" /\ xch[k].req.route \in ProtectedRoutes /\ xch[k].calls # <<>>)
    => \A i \in DOMAIN xch[k].calls :
         /\ Truthy(xch[k].req.cookie)
         /\ xch[k].calls[i].authorization = Bearer(xch[k].req.cookie)
         /\ xch[k].req.route \in BodyRoutes =>
              /\ xch[k].calls[i].body = JSONstringify(xch[k].req.body)
              /\ BodyOfText(xch[k].calls[i].body) = xch[k].req.body

C11_Witness ==
  \E k \in Slots :
    /\ xch[k].phase = "awaiting"
    /\ xch[k].req.route = "create"
    /\ xch[k].req.cookie = "t2"
    /\ xch[k].req.body = IncidentB
    /\ xch[k].calls[1].authorization = Bearer("t2")
    /\ xch[k].calls[1].body = "{title:Disk full,reporter:bob,type:capacity}"

----------------------------------------------------------------------------
(* C12 *)

\* C12: each operation is bound to one upstream call with the operation's verb and
\* path and with the incident id unchanged, and the guard stands in front of exactly
\* the six protected operations: a protected request reaches the upstream iff it
\* has a cookie, login and register always reach it, and logout is answered locally.
C12_RouteTable ==
  \A k \in Slots :
    xch[k].phase # "idle" =>
      /\ xch[k].calls # <<>> =>
           /\ Len(xch[k].calls) = 1
           /\ xch[k].calls[1].method = Registered(xch[k].req.route).method
           /\ xch[k].calls[1].path = Registered(xch[k].req.route).path
           /\ xch[k].calls[1].id = xch[k].req.id
      /\ xch[k].req.route \in ProtectedRoutes =>
           (xch[k].calls = <<>> <=> ~Truthy(xch[k].req.cookie))
      /\ xch[k].req.route \in {"login", "register"} => xch[k].calls # <<>>
      /\ xch[k].req.route = "logout" =>
           Responded(k) /\ xch[k].calls = <<>> /\ xch[k].res.status = 200

C12_Witness ==
  \E k \in Slots :
    /\ xch[k].phase = "awaiting"
    /\ xch[k].req.route = "escalate"
    /\ xch[k].req.id = MaxId
    /\ xch[k].calls[1].method = "POST"
    /\ xch[k].calls[1].path = "/api/escalate/:id"
    /\ xch[k].calls[1].id = MaxId

----------------------------------------------------------------------------
(* C13 *)

\* C13: a request causes at most one upstream call: exactly one for login, register
\* and a protected operation that passed the guard, none for logout and for a
\* request that the guard rejected.
C13_AtMostOneCall ==
  \A k \in Slots :
    xch[k].phase # "idle" =>
      Len(xch[k].calls) =
        IF \/ xch[k].req.route \in {"login", "register"}
           \/ xch[k].req.route \in ProtectedRoutes /\ Truthy(xch[k].req.cookie)
        THEN 1 ELSE 0

C13_Witness ==
  \E k \in Slots :
    /\ Replied(k)
    /\ xch[k].req.route = "update"
    /\ xch[k].up.status = 200
    /\ Len(xch[k].calls) = 1

----------------------------------------------------------------------------
(* C14 *)

\* C14: logout always answers 200 with a message and a cookie-clearing directive,
\* with or without a cookie on the request, and issues no upstream call; once its
\* response has arrived the session has no cookie, the cookie comes back only with
\* a login that the upstream accepted, and a protected request sent without it is
\* answered 401 by the guard.
C14_Logout ==
  [][\A k \in Slots :
       /\ (xch'[k].phase = "responded" /\ xch'[k].req.route = "logout") =>
            /\ xch'[k].res.sent
            /\ xch'[k].res.status = 200
            /\ xch'[k].res.body = MessageBody("Logged out successfully.")
            /\ xch'[k].res.cookie.op = "clear"
            /\ xch'[k].res.cookie.name = "jwtToken"
            /\ xch'[k].calls = <<>>
       /\ (Responded(k) /\ xch[k].req.route = "logout" /\ xch'[k].phase = "idle") =>
            jar'[xch[k].req.sess] = Undefined
       /\ (Responded(k) /\ xch'[k].phase = "idle"
             /\ jar[xch[k].req.sess] = Undefined /\ jar'[xch[k].req.sess] # Undefined) =>
            AcceptedLogin(k, jar'[xch[k].req.sess])
       /\ (xch[k].phase = "idle" /\ xch'[k].phase # "idle"
             /\ xch'[k].req.route \in ProtectedRoutes
             /\ jar[xch'[k].req.sess] = Undefined) =>
            /\ xch'[k].phase = "responded"
            /\ xch'[k].res.status = 401
            /\ xch'[k].res.body = ErrorBody("Authentication required. No token found.")
            /\ xch'[k].calls = <<>>]_vars

\* A session that holds a cookie has been answered its logout.
C14_Witness ==
  \E k \in Slots :
    /\ Responded(k)
    /\ xch[k].req.route = "logout"
    /\ xch[k].req.cookie = "t2"
    /\ jar[xch[k].req.sess] = "t2"
    /\ xch[k].res.cookie.op = "clear"

----------------------------------------------------------------------------
(* C16 *)

\* C16: for a DELETE of an incident id that does not exist, whatever 4xx status the
\* upstream returns, the response has that status and the upstream's body unmodified.
C16_Delete4xxMirrored ==
  \A k \in Slots :
    (Replied(k) /\ xch[k].req.route = "delete"
       /\ xch[k].up.status >= 400 /\ xch[k].up.status <= 499)
    => /\ xch[k].res.status = xch[k].up.status
       /\ JSONparse(xch[k].up.text).ok =>
            xch[k].res.body = JSONparse(xch[k].up.text).value

----------------------------------------------------------------------------
(* C17 *)

\* C17: an authenticated DELETE mirrors the upstream's status both when the
\* upstream's reply has a confirmation body and when its body is empty.
C17_DeleteStatusMirrored ==
  \A k \in Slots :
    (Replied(k) /\ xch[k].req.route = "delete"
       /\ (xch[k].up.text = TxtEmpty \/ JSONparse(xch[k].up.text).ok))
    => xch[k].res.status = xch[k].up.status

----------------------------------------------------------------------------
(* C18 *)

\* C18: register mirrors the upstream: for any upstream status, 401 and 403
\* included, with a JSON body the response has that status and that body; register
\* is never stopped by the guard, and its response neither sets nor clears the
\* session cookie.
C18_RegisterMirrors ==
  \A k \in Slots :
    (xch[k].phase # "idle" /\ xch[k].req.route = "register")
    => /\ xch[k].calls # <<>>
       /\ Responded(k) => xch[k].res.cookie.op = "none"
       /\ (Replied(k) /\ JSONparse(xch[k].up.text).ok) =>
            /\ xch[k].res.status = xch[k].up.status
            /\ xch[k].res.body = JSONparse(xch[k].up.text).value

\* A session with a cookie registers, the upstream answers 403 and the answer is
\* passed on with the cookie left alone.
C18_Witness ==
  \E k \in Slots :
    /\ Replied(k)
    /\ xch[k].req.route = "register"
    /\ xch[k].req.cookie = "t1"
    /\ xch[k].up.status = 403
    /\ xch[k].up.text = TxtErr
    /\ xch[k].res.status = 403
    /\ xch[k].res.body = ErrorBody("denied")
    /\ xch[k].res.cookie.op = "none"

----------------------------------------------------------------------------
(* C15 *)

\* Exchanges j and k carry the same request, the browser session aside.
SameRequest(j, k) ==
  /\ xch[j].req.route = xch[k].req.route
  /\ xch[j].req.id = xch[k].req.id
  /\ xch[j].req.body = xch[k].req.body
  /\ xch[j].req.cookie = xch[k].req.cookie

\* The upstream call and the response of every exchange follow from its own request
\* and the reply to its own call.
OwnOutcome ==
  /\ \A k \in Slots :
        (xch[k].phase # "idle" /\ xch[k].calls # <<>>) =>
          /\ xch[k].calls = <<Fetch(xch[k].req, xch[k].token)>>
          /\ xch[k].req.route \in ProtectedRoutes =>
                /\ xch[k].token = xch[k].req.cookie
                /\ xch[k].calls[1].authorization = Bearer(xch[k].req.cookie)
          /\ xch[k].req.route \in BodyRoutes =>
                xch[k].calls[1].body = JSONstringify(xch[k].req.body)
  /\ \A j, k \in Slots :
        (xch[j].phase # "idle" /\ xch[k].phase # "idle" /\ SameRequest(j, k)) =>
          /\ xch[j].calls = xch[k].calls
          /\ (Responded(j) /\ Responded(k) /\ xch[j].up = xch[k].up) =>
                xch[j].res = xch[k].res

\* A session's cookie changes only when a response to that session's own request
\* arrives, and then as that response directs.
OwnCookie ==
  \A s \in Sessions :
    jar'[s] # jar[s] =>
      \E k \in Slots :
        /\ Responded(k)
        /\ xch'[k] = Idle
        /\ xch[k].req.sess = s
        /\ jar'[s] = StoreCookie(jar[s], xch[k].res.cookie)

\* C15: however the requests of different browser sessions interleave, each
\* request's upstream call and response follow from its own cookie, its own body and
\* the upstream's reply to its own call: the bearer token sent upstream is the cookie
\* of the same request, and a rejection (401/403) or a logout in one session neither
\* clears nor alters the cookie of another session.
C15_RequestsIndependent == []OwnOutcome /\ [][OwnCookie]_vars

\* While session s2 waits for the upstream with its token t2, the list request of
\* session s1 with token t1 has been rejected with 401 and a cookie clearing; s2
\* still holds t2.
C15_Witness ==
  \E j, k \in Slots :
    /\ Replied(j)
    /\ xch[j].req.sess = "s1"
    /\ xch[j].req.cookie = "t1"
    /\ xch[j].up.status = 401
    /\ xch[j].res.cookie.op = "clear"
    /\ xch[k].phase = "awaiting"
    /\ xch[k].req.sess = "s2"
    /\ xch[k].req.route = "create"
    /\ xch[k].calls[1].authorization = Bearer("t2")
    /\ jar["s2"] = "t2"

----------------------------------------------------------------------------
(* C19, C20 *)

\* The incident data in the body of a browser request.
BodyData(b) == [title |-> b.title, reporter |-> b.reporter, type |-> b.type]

\* C19: with a stable upstream, when an authenticated create of an incident with
\* given title, reporter and type has succeeded, the authenticated list that follows
\* it immediately is answered 200 with a collection that has an entry with those
\* title, reporter and type.
C19_CreateThenList ==
  \A k \in Slots :
    (Replied(k) /\ xch[k].req.route = "list"
       /\ last.route = "create" /\ Ok(last.status))
    => /\ xch[k].res.status = 200
       /\ xch[k].res.body.type = "array"
       /\ \E i \in 1..Len(xch[k].res.body.items) :
            BodyData(xch[k].res.body.items[i]) = BodyData(last.body)

\* "Server down" was created after "Disk full", and the list that follows shows both.
C19_Witness ==
  \E k \in Slots :
    /\ Replied(k)
    /\ xch[k].req.route = "list"
    /\ last.route = "create"
    /\ last.status = 201
    /\ last.body = IncidentA
    /\ xch[k].res.status = 200
    /\ xch[k].res.body.items = <<IncidentOf(1, DiskFull), IncidentOf(2, ServerDown)>>

\* C20: with a stable upstream, the GET of incident id that follows a successful
\* authenticated PUT on that id returns the id with the data of the PUT's body,
\* whether the browser has done this PUT with this body once or several times in a
\* row: doing it twice leaves the same representation as doing it once.
C20_UpdateIdempotent ==
  \A k \in Slots :
    (Replied(k) /\ xch[k].req.route = "get"
       /\ last.route = "update" /\ last.id = xch[k].req.id /\ Ok(last.status)
       /\ last.times \in 1..MaxTimes)
    => /\ xch[k].res.status = 200
       /\ xch[k].res.body.incident = IncidentOf(xch[k].req.id, BodyData(last.body))

\* Incident 1 has been updated to "Disk full" twice in a row and the GET shows it.
C20_Witness ==
  \E k \in Slots :
    /\ Replied(k)
    /\ xch[k].req.route = "get"
    /\ xch[k].req.id = 1
    /\ last.route = "update"
    /\ last.id = 1
    /\ last.body = IncidentB
    /\ last.status = 200
    /\ last.times >= 2
    /\ xch[k].res.body.incident = IncidentOf(1, DiskFull)

----------------------------------------------------------------------------
(* C21 *)

\* C21: when the page of an authenticated session has started handleEscalate for
\* incident id, the request it sends has the verb and path of the gateway's escalate
\* route and the gateway issues the upstream call POST escalate/{id} with the
\* session's bearer token.
C21_EscalateClickReachesUpstream ==
  \A k \in Slots :
    (xch[k].phase # "idle" /\ ui[xch[k].req.sess].pending = "handleEscalate"
       /\ Truthy(xch[k].req.cookie))
    => /\ UiFetch("handleEscalate") = Registered("escalate")
       /\ xch[k].calls =
            <<[method |-> "POST", path |-> "/api/escalate/:id", id |-> xch[k].req.id,
               authorization |-> Bearer(xch[k].req.cookie), body |-> Undefined]>>

----------------------------------------------------------------------------
(* C22 *)

\* The response of exchange k is none of: a login the upstream accepted with a token,
\* a logout, a protected call the upstream answered 401 or 403.
OrdinaryResponse(k) ==
  /\ Responded(k)
  /\ ~(\E t \in Tokens : AcceptedLogin(k, t))
  /\ ~LogoutOrRejected(k)

\* C22: a response that is neither a successful login, nor a logout, nor the
\* translation of an upstream 401/403 carries no cookie directive, and its arrival
\* leaves the cookie of its session, and of every session, exactly as it was; this
\* covers the 500 for an unreachable upstream or a malformed upstream body and the
\* mirrored domain errors.
C22_NoDirectiveOtherwise ==
  /\ [](\A k \in Slots : OrdinaryResponse(k) => xch[k].res.cookie = NoCookie)
  /\ [][\A k \in Slots :
          (OrdinaryResponse(k) /\ xch'[k].phase = "idle") => jar' = jar]_vars

\* A session holding t1 is answered 500 because the upstream could not be reached;
\* the response has no cookie directive.
C22_Witness ==
  \E k \in Slots :
    /\ Responded(k)
    /\ xch[k].up.failed
    /\ xch[k].req.route = "list"
    /\ xch[k].req.cookie = "t1"
    /\ jar[xch[k].req.sess] = "t1"
    /\ xch[k].res.status = 500
    /\ xch[k].res.cookie = NoCookie

----------------------------------------------------------------------------
(* C23 *)

\* C23: within one session, whatever the order of the requests in flight, the
\* cookie clearing of a response that reports the upstream's rejection of token T does
\* not remove a cookie that by then holds another token T', which a login accepted
\* after the rejected request was sent has put there.
C23_StaleRejectionKeepsNewerCookie ==
  [][\A k \in Slots :
       (/\ Replied(k)
        /\ xch[k].req.route \in ProtectedRoutes
        /\ xch[k].up.status \in {401, 403}
        /\ xch[k].res.cookie.op = "clear"
        /\ xch'[k].phase = "idle"
        /\ Truthy(jar[xch[k].req.sess])
        /\ jar[xch[k].req.sess] # xch[k].req.cookie)
       => jar'[xch[k].req.sess] = jar[xch[k].req.sess]]_vars

----------------------------------------------------------------------------
(* C24, C25 *)

\* C24: handleLogin switches the page from the auth view to the app view only when
\* the login response it received set the session cookie; a login response without a
\* cookie never makes the page show the app view.
C24_AppViewOnlyWithCookie ==
  [][\A k \in Slots :
       (/\ Responded(k)
        /\ xch'[k].phase = "idle"
        /\ ui[xch[k].req.sess].pending = "handleLogin"
        /\ ui[xch[k].req.sess].view = "auth"
        /\ ui'[xch[k].req.sess].view = "app")
       => xch[k].res.cookie.op = "set"]_vars

\* C25: when the response to a protected request of the page (list, get, create,
\* update, delete) clears the session cookie because the upstream answered 401 or
\* 403, the page shows the auth view once the response has arrived; it is not left in
\* the app view.
C25_RejectionShowsAuthView ==
  [][\A k \in Slots :
       (/\ Replied(k)
        /\ xch'[k].phase = "idle"
        /\ ui[xch[k].req.sess].pending \in ChecksFor401
        /\ xch[k].up.status \in {401, 403}
        /\ xch[k].res.cookie.op = "clear")
       => ui'[xch[k].req.sess].view = "auth"]_vars

----------------------------------------------------------------------------
(* C26 *)

\* The handler of exchange k has ended and has sent its one response: a second send
\* on the same response throws and leaves the handler's promise rejected.
AnsweredOnce(k) == Responded(k) /\ xch[k].res.sent /\ ~xch[k].res.unhandled

\* C26: if every upstream call returns a reply or fails in the end, every request
\* gets exactly one response in the end: a request that waits for the upstream is
\* answered, no handler ends without having responded or by sending a second
\* response, and the response reaches the browser.
C26_EveryRequestAnswered ==
  /\ [](\A k \in Slots : Responded(k) => AnsweredOnce(k))
  /\ \A k \in Slots : (xch[k].phase = "awaiting") ~> AnsweredOnce(k)
  /\ \A k \in Slots : AnsweredOnce(k) ~> (xch[k].phase = "idle")

\* A delete that waited for an upstream call that failed has been answered 500.
C26_Witness ==
  \E k \in Slots :
    /\ AnsweredOnce(k)
    /\ xch[k].req.route = "delete"
    /\ xch[k].up.failed
    /\ xch[k].res.status = 500
    /\ alive

====
